---- MODULE Spec2Model ----
(***************************************************************************)
(* Model of qudi/core/qudikernel.py: the QudiKernelService connection      *)
(* hooks, the QudiKernelClient (connect / get_active_modules / disconnect) *)
(* and the QudiIPythonKernel namespace reconciliation                      *)
(* (update_module_namespace, do_execute, do_shutdown).                     *)
(*                                                                         *)
(* Three specifications are given:                                         *)
(*   Spec         one QudiIPythonKernel session driving its client;        *)
(*   ClientSpec   one QudiKernelClient called in any order;                *)
(*   ServiceSpec  the QudiKernelService hooks called in any order.         *)
(***************************************************************************)
EXTENDS Integers, FiniteSets, Sequences, TLC

VARIABLES
    connection,                \* QudiKernelClient.connection: None or a connection id
    conns,                     \* every connection id -> "unopened" | "open" | "closed"
    _background_server,        \* QudiKernelService._background_server: None or a receiver id
    receivers,                 \* receivers (BgServingThread) started and not stopped
    user_ns,                   \* shell.user_ns restricted to Names: name -> value
    _namespace_qudi_modules,   \* QudiIPythonKernel._namespace_qudi_modules
    pc,                        \* position of the kernel's foreground thread
    snapshot,                  \* mapping returned to the last completed pass
    edited,                    \* user code changed the namespace since the last completed pass
    last                       \* record of the last call (observation only)

vars == <<connection, conns, _background_server, receivers, user_ns,
          _namespace_qudi_modules, pc, snapshot, edited, last>>

clientVars == <<connection, conns, _background_server, receivers>>

kernelVars == <<user_ns, _namespace_qudi_modules, pc, snapshot, edited>>

-----------------------------------------------------------------------------
(* Bounds and input domains *)

\* Number of connections one client may open in a run.
MaxConns == 3

\* Python's None for connection and receiver references.
None == 0

ConnIds == 1..MaxConns

Names == {"a", "b", "c", "d"}

\* The object the registry exposes under a name.
RemoteVal == [n \in Names |->
                CASE n = "a" -> 10 [] n = "b" -> 20 [] n = "c" -> 30 [] OTHER -> 40]

\* The object user code binds to a name.
UserVal == [n \in Names |->
                CASE n = "a" -> 1 [] n = "b" -> 2 [] n = "c" -> 3 [] OTHER -> 4]

\* dict(): the empty mapping.
EmptyMap == [n \in {} |-> 0]

\* The mappings get_namespace_dict() may return.
Snapshots == {[n \in D |-> RemoteVal[n]] : D \in SUBSET Names}

\* How Connection.close() may end: normally, with the receiver's stop()
\* raising inside on_disconnect (swallowed there), or raising itself before
\* the service hook ran.
CloseOutcomes == {"ok", "stop_raises", "raise"}

\* What happens to the link while a remote call is in flight: nothing, or
\* the link is lost and the receiver thread closes the connection, the close
\* ending in one of the ways above.
InFlight == {"none"} \cup CloseOutcomes

\* What one unit of user code does to the namespace: the names it deletes
\* and the names it binds.
Edits == {e \in (SUBSET Names) \X (SUBSET Names) : e[1] \cap e[2] = {}}

\* The inputs of one query: how the remote call ends, the mapping it returns
\* when it succeeds, how the close of the connection-loss path ends, and
\* what happens to the link while the call is in flight (a connection the
\* receiver thread closed is closed already when disconnect() reaches it).
QueryInputs ==
    {<<"ok", S, "ok", lost>> : S \in Snapshots, lost \in InFlight}
    \cup {<<qo, EmptyMap, co, "none">> :
              qo \in {"ConnectionError", "EOFError"}, co \in CloseOutcomes}
    \cup {<<qo, EmptyMap, "ok", lost>> :
              qo \in {"ConnectionError", "EOFError"}, lost \in CloseOutcomes}
    \cup {<<"other", EmptyMap, "ok", lost>> : lost \in InFlight}

-----------------------------------------------------------------------------
(* QudiKernelService: a client value c is the record of the client's and   *)
(* its service's fields.                                                   *)

Client == [connection |-> connection, conns |-> conns,
           bg |-> _background_server, receivers |-> receivers]

\* on_connect(conn): start a receiver bound to conn and reference it.
on_connect(c, conn) ==
    [c EXCEPT !.bg = conn, !.receivers = @ \cup {conn}]

\* Whether the receiver the service references is running.
ReceiverStatus(c) ==
    IF c.bg = None THEN "none"
    ELSE IF c.bg \in c.receivers THEN "running" ELSE "stopped"

\* self._background_server.stop(): with no receiver referenced the
\* attribute access fails, a receiver that is not running refuses to be
\* stopped, and stopping a running receiver may raise as well (stopRaises);
\* the referenced receiver is not running afterwards.
stop(c, stopRaises) ==
    [client |-> [c EXCEPT !.receivers = @ \ {c.bg}],
     raised |-> CASE c.bg = None            -> "AttributeError"
                  [] c.bg \notin c.receivers -> "AssertionError"
                  [] stopRaises             -> "RuntimeError"
                  [] OTHER                  -> "none"]

\* Variant: except AssertionError
CatchAllStop_assertion_only(exc) == exc = "AssertionError"

\* The bare "except:" of on_disconnect(): it catches whatever stop() raises.
CatchAllStop(exc) == TRUE

\* on_disconnect(conn): stop the referenced receiver, swallowing any error
\* (no receiver referenced, receiver already stopped, stop() raising), and
\* drop the reference in the finally clause.
on_disconnect(c, stopRaises) ==
    LET s == stop(c, stopRaises)
    IN  [client |-> [s.client EXCEPT !.bg = None],
         raised |-> IF s.raised # "none" /\ ~CatchAllStop(s.raised)
                    THEN s.raised ELSE "none",
         how    |-> s.raised]

\* Connection.close() as the client sees it: a closed connection is left
\* alone; otherwise the connection is marked closed and the service's
\* on_disconnect hook runs unless close raised before reaching it; what the
\* hook raises leaves close as well.  When stop() raises in the hook the
\* receiver of the closed connection has ended too, referenced or not; after
\* a close that ends normally a receiver the service does not reference is
\* left to end by itself (ReceiverEnds).
close(c, conn, co) ==
    IF c.conns[conn] # "open"
    THEN [client |-> c, raised |-> FALSE, how |-> "noop"]
    ELSE LET marked == [c EXCEPT !.conns[conn] = "closed"]
             hook   == on_disconnect(marked, co = "stop_raises")
             ended  == IF co = "stop_raises" THEN {conn} ELSE {}
         IN  IF co = "raise"
             THEN [client |-> marked, raised |-> TRUE, how |-> "raise"]
             ELSE [client |-> [hook.client EXCEPT !.receivers = @ \ ended],
                   raised |-> hook.raised # "none",
                   how |-> co]

-----------------------------------------------------------------------------
(* QudiKernelClient *)

\* Variant: the handler catches end-of-stream only.
CatchAll_eof_only(exc) == exc = "EOFError"

\* The bare "except:" of disconnect(): it catches whatever close() raises.
CatchAll(exc) == TRUE

\* Variant: the reference is cleared in an else clause, so a failing close
\* leaves it set.
disconnect_keeps_on_failure(c, co) ==
    IF c.connection # None
    THEN LET cl == close(c, c.connection, co)
         IN  [client |-> IF cl.raised THEN cl.client
                         ELSE [cl.client EXCEPT !.connection = None],
              raised |-> IF cl.raised /\ ~CatchAll("CloseError")
                         THEN "CloseError" ELSE "none",
              how    |-> cl.how]
    ELSE [client |-> c, raised |-> "none", how |-> "not_called"]

\* disconnect(): close the connection if there is one, swallow a failing
\* close, always clear the reference.
disconnect(c, co) ==
    IF c.connection # None
    THEN LET cl == close(c, c.connection, co)
         IN  [client |-> [cl.client EXCEPT !.connection = None],
              raised |-> IF cl.raised /\ ~CatchAll("CloseError")
                         THEN "CloseError" ELSE "none",
              how    |-> cl.how]
    ELSE [client |-> c, raised |-> "none", how |-> "not_called"]

\* Variant: a bare except: around the remote call
Caught_everything(exc) == TRUE

\* Variant: except ConnectionError
Caught_connection_error_only(exc) == exc = "ConnectionError"

\* except (ConnectionError, EOFError)
Caught(exc) == exc \in {"ConnectionError", "EOFError"}

\* Variant: self.connection is None
NoLiveConnection_none_only(c) == c.connection = None

\* self.connection is None or self.connection.closed
NoLiveConnection(c) == c.connection = None \/ c.conns[c.connection] = "closed"

ConnStatus(c) ==
    IF c.connection = None THEN "none" ELSE c.conns[c.connection]

\* The client and its service when the remote call of get_active_modules()
\* returns or raises: the call waits for its reply while the receiver thread
\* serves the connection, and that thread closes the connection (running
\* on_disconnect) when the link is lost meanwhile.
in_flight(c, lost) ==
    IF lost = "none" THEN c ELSE close(c, c.connection, lost).client

\* Variant: the connection-loss handler returns dict() without disconnect().
get_active_modules_no_disconnect(c, qo, S, co, lost) ==
    IF NoLiveConnection(c)
    THEN [client |-> c, result |-> EmptyMap, raised |-> "none",
          remoteCalled |-> FALSE, how |-> "not_called"]
    ELSE IF qo = "ok"
    THEN [client |-> in_flight(c, lost), result |-> S, raised |-> "none",
          remoteCalled |-> TRUE, how |-> "not_called"]
    ELSE IF Caught(qo)
    THEN [client |-> in_flight(c, lost), result |-> EmptyMap, raised |-> "none",
          remoteCalled |-> TRUE, how |-> "not_called"]
    ELSE [client |-> in_flight(c, lost), result |-> EmptyMap, raised |-> qo,
          remoteCalled |-> TRUE, how |-> "not_called"]

\* Variant: a client without a connection opens a new one before the query.
get_active_modules_reconnects(c, qo, S, co, lost) ==
    IF c.connection = None /\ (\E i \in ConnIds : c.conns[i] = "unopened")
    THEN LET i == CHOOSE j \in ConnIds : c.conns[j] = "unopened"
         IN  [client |-> [on_connect([c EXCEPT !.conns[i] = "open"], i)
                             EXCEPT !.connection = i],
              result |-> IF qo = "ok" THEN S ELSE EmptyMap, raised |-> "none",
              remoteCalled |-> TRUE, how |-> "not_called"]
    ELSE IF NoLiveConnection(c)
    THEN [client |-> c, result |-> EmptyMap, raised |-> "none",
          remoteCalled |-> FALSE, how |-> "not_called"]
    ELSE IF qo = "ok"
    THEN [client |-> in_flight(c, lost), result |-> S, raised |-> "none",
          remoteCalled |-> TRUE, how |-> "not_called"]
    ELSE IF Caught(qo)
    THEN LET d == disconnect(in_flight(c, lost), co)
         IN  [client |-> d.client, result |-> EmptyMap, raised |-> d.raised,
              remoteCalled |-> TRUE, how |-> d.how]
    ELSE [client |-> in_flight(c, lost), result |-> EmptyMap, raised |-> qo,
          remoteCalled |-> TRUE, how |-> "not_called"]

\* Variant: a connection found closed is released by disconnect().
get_active_modules_releases_closed(c, qo, S, co, lost) ==
    IF NoLiveConnection(c)
    THEN [client |-> disconnect(c, co).client, result |-> EmptyMap, raised |-> "none",
          remoteCalled |-> FALSE, how |-> "not_called"]
    ELSE IF qo = "ok"
    THEN [client |-> in_flight(c, lost), result |-> S, raised |-> "none",
          remoteCalled |-> TRUE, how |-> "not_called"]
    ELSE IF Caught(qo)
    THEN LET d == disconnect(in_flight(c, lost), co)
         IN  [client |-> d.client, result |-> EmptyMap, raised |-> d.raised,
              remoteCalled |-> TRUE, how |-> d.how]
    ELSE [client |-> in_flight(c, lost), result |-> EmptyMap, raised |-> qo,
          remoteCalled |-> TRUE, how |-> "not_called"]

\* get_active_modules(): qo is how the remote call ends, S what it returns
\* when it succeeds, co how the close of the failure path ends, lost what
\* happens to the link while the call is in flight.
get_active_modules(c, qo, S, co, lost) ==
    IF NoLiveConnection(c)
    THEN [client |-> c, result |-> EmptyMap, raised |-> "none",
          remoteCalled |-> FALSE, how |-> "not_called"]
    ELSE IF qo = "ok"
    THEN [client |-> in_flight(c, lost), result |-> S, raised |-> "none",
          remoteCalled |-> TRUE, how |-> "not_called"]
    ELSE IF Caught(qo)
    THEN LET d == disconnect(in_flight(c, lost), co)
         IN  [client |-> d.client, result |-> EmptyMap, raised |-> d.raised,
              remoteCalled |-> TRUE, how |-> d.how]
    ELSE [client |-> in_flight(c, lost), result |-> EmptyMap, raised |-> qo,
          remoteCalled |-> TRUE, how |-> "not_called"]

\* The lowest connection id not used yet.
FreshConn(c) == CHOOSE i \in ConnIds :
                    /\ c.conns[i] = "unopened"
                    /\ \A j \in ConnIds : j < i => c.conns[j] # "unopened"

\* connect(): rpyc.connect() opens a new connection, which presents the
\* service instance (on_connect), and the reference is overwritten.  When
\* rpyc.connect() raises nothing is assigned.
connect(c, ok) ==
    IF ok
    THEN LET i == FreshConn(c)
         IN  [on_connect([c EXCEPT !.conns[i] = "open"], i) EXCEPT !.connection = i]
    ELSE c

-----------------------------------------------------------------------------
(* QudiIPythonKernel: the reconciliation *)

\* Variant: every name the snapshot lacks is removed, tracked or not.
removed_all_missing(tracked, modules) == Names \ DOMAIN modules

\* Variant: set(modules).difference(self._namespace_qudi_modules)
removed_reversed(tracked, modules) == DOMAIN modules \ tracked

\* self._namespace_qudi_modules.difference(modules)
removed(tracked, modules) == tracked \ DOMAIN modules

\* Variant: self.shell.user_ns.get(mod, None)
pop_reads_only(ns, mod) == ns

\* self.shell.user_ns.pop(mod, None)
pop(ns, mod) == [n \in DOMAIN ns \ {mod} |-> ns[n]]

\* for mod in removed: self.shell.user_ns.pop(mod, None)
RECURSIVE pop_each(_, _)
pop_each(ns, names) ==
    IF names = {} THEN ns
    ELSE LET mod == CHOOSE x \in names : TRUE
         IN  pop_each(pop(ns, mod), names \ {mod})

\* Variant: a name already bound keeps its binding.
push_keeps_existing(ns, modules) ==
    [n \in DOMAIN ns \cup DOMAIN modules |->
        IF n \in DOMAIN ns THEN ns[n] ELSE modules[n]]

\* self.shell.push(modules): bind every entry of modules in the namespace.
push(ns, modules) ==
    [n \in DOMAIN ns \cup DOMAIN modules |->
        IF n \in DOMAIN modules THEN modules[n] ELSE ns[n]]

\* set(modules)
set_of(modules) == DOMAIN modules

\* Variant: the tracked set accumulates (update(modules) instead of
\* assignment).
update_module_namespace_accumulates(c, ns, tracked, qo, S, co, lost) ==
    LET g       == get_active_modules(c, qo, S, co, lost)
        modules == g.result
    IN  IF g.raised # "none"
        THEN [gam |-> g, completed |-> FALSE, ns |-> ns, tracked |-> tracked]
        ELSE [gam |-> g, completed |-> TRUE,
              ns |-> push(pop_each(ns, removed(tracked, modules)), modules),
              tracked |-> tracked \cup set_of(modules)]

\* Variant: the push comes first and every tracked name is popped after it.
update_module_namespace_pop_after_push(c, ns, tracked, qo, S, co, lost) ==
    LET g       == get_active_modules(c, qo, S, co, lost)
        modules == g.result
    IN  IF g.raised # "none"
        THEN [gam |-> g, completed |-> FALSE, ns |-> ns, tracked |-> tracked]
        ELSE [gam |-> g, completed |-> TRUE,
              ns |-> pop_each(push(ns, modules), tracked),
              tracked |-> set_of(modules)]

\* Variant: the tracked names are dropped before the query is made.
update_module_namespace_clears_first(c, ns, tracked, qo, S, co, lost) ==
    LET g       == get_active_modules(c, qo, S, co, lost)
        modules == g.result
        cleared == pop_each(ns, tracked)
    IN  IF g.raised # "none"
        THEN [gam |-> g, completed |-> FALSE, ns |-> cleared, tracked |-> {}]
        ELSE [gam |-> g, completed |-> TRUE,
              ns |-> push(cleared, modules),
              tracked |-> set_of(modules)]

\* update_module_namespace() on client c, namespace ns and tracked set
\* tracked.  When the query raises, nothing after it runs.
update_module_namespace(c, ns, tracked, qo, S, co, lost) ==
    LET g       == get_active_modules(c, qo, S, co, lost)
        modules == g.result
    IN  IF g.raised # "none"
        THEN [gam |-> g, completed |-> FALSE, ns |-> ns, tracked |-> tracked]
        ELSE [gam |-> g, completed |-> TRUE,
              ns |-> push(pop_each(ns, removed(tracked, modules)), modules),
              tracked |-> set_of(modules)]

\* What one unit of user code does to the namespace.
apply_edit(ns, e) ==
    [n \in (DOMAIN ns \ e[1]) \cup e[2] |-> IF n \in e[2] THEN UserVal[n] ELSE ns[n]]

-----------------------------------------------------------------------------
(* Observation of the last call *)

NoLast == [op |-> "none", pre |-> "none", qo |-> "not_called", result |-> EmptyMap,
           raised |-> "none", remoteCalled |-> FALSE, how |-> "not_called",
           lost |-> "none", T |-> {}, same |-> FALSE]

\* The record of a call that ran a query g on a client in state pre.
QueryLast(op, pre, g, qo, lost, T, same) ==
    [op |-> op, pre |-> pre, qo |-> IF g.remoteCalled THEN qo ELSE "not_called",
     result |-> g.result, raised |-> g.raised, remoteCalled |-> g.remoteCalled,
     how |-> g.how, lost |-> IF g.remoteCalled THEN lost ELSE "none",
     T |-> T, same |-> same]

\* The record of a call to disconnect() with result d.
DisconnectLast(op, pre, d) ==
    [NoLast EXCEPT !.op = op, !.pre = pre, !.raised = d.raised, !.how = d.how]

SetClient(c) ==
    /\ connection' = c.connection
    /\ conns' = c.conns
    /\ _background_server' = c.bg
    /\ receivers' = c.receivers

-----------------------------------------------------------------------------
(* The state after construction of the client, before the kernel's        *)
(* __init__ body has called connect().                                    *)

Init ==
    /\ connection = None
    /\ conns = [i \in ConnIds |-> "unopened"]
    /\ _background_server = None
    /\ receivers = {}
    /\ user_ns = EmptyMap
    /\ _namespace_qudi_modules = {}
    /\ pc = "new"
    /\ snapshot = EmptyMap
    /\ edited = FALSE
    /\ last = NoLast

-----------------------------------------------------------------------------
(* Environment: the link of an open connection is lost and the transport  *)
(* marks the connection closed (what connection.closed then reports); a   *)
(* receiver thread ends by itself.                                        *)

LinkLost ==
    \E i \in ConnIds, co \in CloseOutcomes :
        /\ conns[i] = "open"
        /\ SetClient(close(Client, i, co).client)
        /\ last' = [NoLast EXCEPT !.op = "link_lost"]
        /\ UNCHANGED kernelVars

ReceiverEnds ==
    \E r \in receivers :
        /\ receivers' = receivers \ {r}
        /\ last' = [NoLast EXCEPT !.op = "receiver_ends"]
        /\ UNCHANGED <<connection, conns, _background_server, kernelVars>>

-----------------------------------------------------------------------------
(* QudiIPythonKernel actions *)

\* Variant: what the call raises is ignored and the caller goes on.
after_call_ignores_failure(returned, next, propagated) == next

\* Where the caller is after a call: at its next statement when the call
\* returned, out of the handler when the call raised.
after_call(returned, next, propagated) ==
    IF returned THEN next ELSE propagated

\* One pass of update_module_namespace() from tracked set T, moving to
\* position done when it completes and to position failed when it raises.
Pass(op, T, qo, S, co, lost, done, failed) ==
    LET u    == update_module_namespace(Client, user_ns, T, qo, S, co, lost)
        same == u.completed /\ op = "do_execute" /\ ~edited /\ u.gam.result = snapshot
    IN  /\ SetClient(u.gam.client)
        /\ user_ns' = u.ns
        /\ _namespace_qudi_modules' = u.tracked
        /\ snapshot' = IF u.completed THEN u.gam.result ELSE snapshot
        /\ edited' = IF u.completed THEN FALSE ELSE edited
        /\ pc' = after_call(u.completed, done, failed)
        /\ last' = QueryLast(op, ConnStatus(Client), u.gam, qo, lost, T, same)

\* Variant: a failing connect() is swallowed and __init__ goes on.
KernelInit_connect_swallows_failure ==
    \E ok \in BOOLEAN :
        /\ pc = "new"
        /\ SetClient(connect(Client, ok))
        /\ pc' = "init_sync"
        /\ last' = [NoLast EXCEPT !.op = "connect",
                                  !.raised = IF ok THEN "none" ELSE "connect_error"]
        /\ UNCHANGED <<user_ns, _namespace_qudi_modules, snapshot, edited>>

\* __init__: self._qudi_client.connect()
KernelInit_connect ==
    \E ok \in BOOLEAN :
        /\ pc = "new"
        /\ SetClient(connect(Client, ok))
        /\ pc' = after_call(ok, "init_sync", "failed")
        /\ last' = [NoLast EXCEPT !.op = "connect",
                                  !.raised = IF ok THEN "none" ELSE "connect_error"]
        /\ UNCHANGED <<user_ns, _namespace_qudi_modules, snapshot, edited>>

\* __init__: self._namespace_qudi_modules = set(); self.update_module_namespace()
KernelInit_sync ==
    \E in \in QueryInputs :
        /\ pc = "init_sync"
        /\ Pass("__init__", {}, in[1], in[2], in[3], in[4], "ready", "failed")

\* do_execute: self.update_module_namespace()
do_execute_sync ==
    \E in \in QueryInputs :
        /\ pc = "ready"
        /\ Pass("do_execute", _namespace_qudi_modules, in[1], in[2], in[3], in[4],
                "exec_super", "ready")

\* do_execute: super().do_execute(...), which runs the user's code.
do_execute_super ==
    \E e \in Edits :
        /\ pc = "exec_super"
        /\ user_ns' = apply_edit(user_ns, e)
        /\ edited' = (edited \/ e[1] \cup e[2] # {})
        /\ pc' = "ready"
        /\ last' = [NoLast EXCEPT !.op = "super_do_execute"]
        /\ UNCHANGED <<clientVars, _namespace_qudi_modules, snapshot>>

\* The position before super().do_shutdown(restart), for each restart flag.
ShutdownSuper(restart) ==
    IF restart THEN "shutdown_super_restart" ELSE "shutdown_super_stop"

\* do_shutdown(restart): self._qudi_client.disconnect()
do_shutdown_disconnect ==
    \E restart \in BOOLEAN, co \in CloseOutcomes :
        LET d == disconnect(Client, co)
        IN  /\ pc = "ready"
            /\ SetClient(d.client)
            /\ pc' = after_call(d.raised = "none", ShutdownSuper(restart), "ready")
            /\ last' = DisconnectLast("do_shutdown", ConnStatus(Client), d)
            /\ UNCHANGED <<user_ns, _namespace_qudi_modules, snapshot, edited>>

\* do_shutdown: super().do_shutdown(restart)
do_shutdown_super ==
    \E restart \in BOOLEAN :
        /\ pc = ShutdownSuper(restart)
        /\ pc' = "ready"
        /\ last' = [NoLast EXCEPT !.op = "super_do_shutdown"]
        /\ UNCHANGED <<clientVars, user_ns, _namespace_qudi_modules, snapshot, edited>>

Next ==
    \/ KernelInit_connect
    \/ KernelInit_sync
    \/ do_execute_sync
    \/ do_execute_super
    \/ do_shutdown_disconnect
    \/ do_shutdown_super
    \/ LinkLost
    \/ ReceiverEnds

Spec == Init /\ [][Next]_vars

-----------------------------------------------------------------------------
(* QudiKernelClient called directly, in any order *)

Client_connect ==
    \E ok \in BOOLEAN :
        /\ \E i \in ConnIds : conns[i] = "unopened"
        /\ SetClient(connect(Client, ok))
        /\ last' = [NoLast EXCEPT !.op = "connect", !.pre = ConnStatus(Client),
                                  !.raised = IF ok THEN "none" ELSE "connect_error"]
        /\ UNCHANGED kernelVars

Client_get_active_modules ==
    \E in \in QueryInputs :
        LET g == get_active_modules(Client, in[1], in[2], in[3], in[4])
        IN  /\ SetClient(g.client)
            /\ last' = QueryLast("get_active_modules", ConnStatus(Client), g, in[1], in[4],
                                 {}, FALSE)
            /\ UNCHANGED kernelVars

Client_disconnect ==
    \E co \in CloseOutcomes :
        LET d == disconnect(Client, co)
        IN  /\ SetClient(d.client)
            /\ last' = DisconnectLast("disconnect", ConnStatus(Client), d)
            /\ UNCHANGED kernelVars

ClientNext ==
    \/ Client_connect
    \/ Client_get_active_modules
    \/ Client_disconnect
    \/ LinkLost
    \/ ReceiverEnds

ClientSpec == Init /\ [][ClientNext]_vars

-----------------------------------------------------------------------------
(* QudiKernelService hooks called directly, in any order; a receiver may   *)
(* also end by itself.                                                     *)

\* The record of a call to on_disconnect() with result h on a service whose
\* receiver was in state pre.
HookLast(pre, h) ==
    [NoLast EXCEPT !.op = "on_disconnect", !.pre = pre, !.raised = h.raised,
                   !.how = h.how]

Service_on_connect ==
    \E i \in ConnIds :
        /\ conns[i] = "unopened"
        /\ SetClient(on_connect([Client EXCEPT !.conns[i] = "open"], i))
        /\ last' = [NoLast EXCEPT !.op = "on_connect", !.pre = ReceiverStatus(Client)]
        /\ UNCHANGED kernelVars

Service_on_disconnect ==
    \E stopRaises \in BOOLEAN :
        LET h == on_disconnect(Client, stopRaises)
        IN  /\ SetClient(h.client)
            /\ last' = HookLast(ReceiverStatus(Client), h)
            /\ UNCHANGED kernelVars

ServiceNext ==
    \/ Service_on_connect
    \/ Service_on_disconnect
    \/ ReceiverEnds

ServiceSpec == Init /\ [][ServiceNext]_vars

-----------------------------------------------------------------------------
(* Properties *)

ConnectionLoss == {"ConnectionError", "EOFError"}

\* The last call was a reconciliation pass and it completed.
PassCompleted == last.op \in {"__init__", "do_execute"} /\ last.raised = "none"

\* This step is a reconciliation pass that completes.
CompletedPassStep ==
    /\ pc \in {"init_sync", "ready"}
    /\ last'.op \in {"__init__", "do_execute"}
    /\ last'.raised = "none"

LiveConnections == {i \in ConnIds : conns[i] = "open"}

\* C1: after every update_module_namespace() pass that completes, the
\* tracked name set is exactly the key set of the snapshot that pass got
\* from get_active_modules(), the empty snapshot included.
C1_TrackedIsSnapshotKeys ==
    PassCompleted => _namespace_qudi_modules = DOMAIN last.result

C1_Witness ==
    /\ PassCompleted
    /\ last.T = {"a", "b"}
    /\ DOMAIN last.result = {"b", "d"}
    /\ _namespace_qudi_modules = {"b", "d"}

\* C2: one pass turns namespace N, tracked set T and snapshot S into
\* (N without the names of T \ keys(S)) overridden by S, user bindings under
\* a name of S included; T={a,b}, N={a=1,b=2,c=3}, S={b=20,d=40} gives
\* N'={b=20,c=3,d=40} and tracked set {b,d}.
C2_PassResult ==
    [][CompletedPassStep =>
         LET T == last'.T
             S == last'.result
             N == user_ns
         IN  /\ DOMAIN user_ns' = (DOMAIN N \ (T \ DOMAIN S)) \cup DOMAIN S
             /\ \A n \in DOMAIN S : user_ns'[n] = S[n]
             /\ \A n \in DOMAIN user_ns' \ DOMAIN S : user_ns'[n] = N[n]
             /\ \A n \in T \ DOMAIN S : n \notin DOMAIN user_ns'
             /\ ( /\ T = {"a", "b"}
                  /\ N = ("a" :> 1 @@ "b" :> 2 @@ "c" :> 3)
                  /\ S = ("b" :> 20 @@ "d" :> 40)
                  => /\ user_ns' = ("b" :> 20 @@ "c" :> 3 @@ "d" :> 40)
                     /\ _namespace_qudi_modules' = {"b", "d"} )
      ]_vars

C2_Witness ==
    /\ pc = "exec_super"
    /\ PassCompleted
    /\ last.T = {"a", "b"}
    /\ last.result = ("b" :> 20 @@ "d" :> 40)
    /\ user_ns = ("b" :> 20 @@ "c" :> 3 @@ "d" :> 40)
    /\ _namespace_qudi_modules = {"b", "d"}

\* C3 as stated: whatever the outcome of the snapshot query of a
\* do_execute() call, the engine's execute is invoked for that call.
C3_ExecuteAlwaysInvoked ==
    last.op = "do_execute" => pc = "exec_super"

\* C3 amended: when the snapshot query of a do_execute() call finds no
\* connection or a closed one, or loses the connection during the query
\* (ConnectionError, EOFError), the sync raises nothing and the engine's
\* execute is invoked; any other query failure propagates out of
\* do_execute() and the engine's execute is not invoked for that call.
C3_ExecuteUnlessOtherFailure ==
    last.op = "do_execute" =>
        /\ (last.pre \in {"none", "closed"} \/ last.qo \in ConnectionLoss)
              => (last.raised = "none" /\ pc = "exec_super")
        /\ last.qo = "other" => (last.raised = "other" /\ pc = "ready")

C3_Witness ==
    /\ last.op = "do_execute"
    /\ last.qo = "EOFError"
    /\ last.raised = "none"
    /\ pc = "exec_super"

\* C4: when the remote query of get_active_modules() fails with a
\* connection error or end-of-stream, the call returns an empty mapping
\* without raising and leaves the connection reference None, and a
\* disconnect() that follows changes nothing, closes nothing and does not
\* raise.
C4_ConnectionLossHandled ==
    /\ [](  (last.op = "get_active_modules" /\ last.qo \in ConnectionLoss)
            => /\ last.result = EmptyMap
               /\ last.raised = "none"
               /\ connection = None )
    /\ [][  ( /\ last.op = "get_active_modules"
              /\ last.qo \in ConnectionLoss
              /\ last'.op = "disconnect" )
            => /\ UNCHANGED clientVars
               /\ last'.how = "not_called"
               /\ last'.raised = "none" ]_vars

C4_Witness ==
    /\ last.op = "get_active_modules"
    /\ last.qo = "EOFError"
    /\ last.pre = "open"
    /\ last.how = "raise"
    /\ last.result = EmptyMap
    /\ connection = None

\* C5: after any sequence of connect(), get_active_modules() and
\* disconnect() on one client, at most one connection opened by it is not
\* yet closed.
C5_AtMostOneLiveConnection ==
    Cardinality(LiveConnections) <= 1

\* C6: disconnect() always leaves the client with no connection and never
\* raises, whether a live connection existed, close raised, the connection
\* was already closed or none was ever established; a second consecutive
\* disconnect() changes no state.
C6_DisconnectTotal ==
    /\ [](last.op = "disconnect" => (connection = None /\ last.raised = "none"))
    /\ [][  (last.op = "disconnect" /\ last'.op = "disconnect")
            => (UNCHANGED clientVars /\ last'.how = "not_called") ]_vars

C6_Witness ==
    /\ last.op = "disconnect"
    /\ last.pre = "open"
    /\ last.how = "raise"
    /\ connection = None

\* C7: a pass that gets the same snapshot as the pass before it, with no
\* user edit in between, leaves the namespace and the tracked set as the
\* first pass left them.
C7_Idempotent ==
    [][  ( /\ CompletedPassStep
           /\ pc = "ready"
           /\ ~edited
           /\ last'.result = snapshot )
         => /\ user_ns' = user_ns
            /\ _namespace_qudi_modules' = _namespace_qudi_modules ]_vars

C7_Witness ==
    /\ PassCompleted
    /\ last.same
    /\ DOMAIN last.result = {"b", "d"}
    /\ "c" \in DOMAIN user_ns

\* C8: a pass leaves every binding whose name is neither tracked before the
\* pass nor a key of the snapshot as it was: same value, none added, none
\* removed.
C8_UserVariablesUntouched ==
    [][CompletedPassStep =>
         \A n \in Names \ (last'.T \cup DOMAIN last'.result) :
             /\ (n \in DOMAIN user_ns') = (n \in DOMAIN user_ns)
             /\ n \in DOMAIN user_ns => user_ns'[n] = user_ns[n]
      ]_vars

C8_Witness ==
    /\ pc = "exec_super"
    /\ PassCompleted
    /\ last.T = {"a", "b"}
    /\ DOMAIN last.result = {"b"}
    /\ DOMAIN user_ns = {"b", "c"}
    /\ user_ns["c"] = 3

\* C9: a pass against an empty snapshot with a non-empty tracked set removes
\* every previously tracked name and leaves the tracked set empty; the
\* pre-execution sync that finds the connection gone, closed or lost during
\* the query is such a pass.
C9_EmptySnapshotClears ==
    /\ (PassCompleted /\ last.result = EmptyMap)
        => /\ _namespace_qudi_modules = {}
           /\ \A n \in last.T : n \notin DOMAIN user_ns
    /\ (last.op = "do_execute" /\ (last.pre \in {"none", "closed"} \/ last.qo \in ConnectionLoss))
        => /\ last.raised = "none"
           /\ last.result = EmptyMap
           /\ _namespace_qudi_modules = {}
           /\ \A n \in last.T : n \notin DOMAIN user_ns

C9_Witness ==
    /\ last.op = "do_execute"
    /\ last.pre = "closed"
    /\ last.T = {"a", "b"}
    /\ _namespace_qudi_modules = {}
    /\ DOMAIN user_ns = {"c"}

\* C10: get_active_modules() on a client with no connection, or with a
\* connection already marked closed, returns an empty mapping, raises
\* nothing and issues no remote call.
C10_NoConnectionEmpty ==
    (last.op = "get_active_modules" /\ last.pre \in {"none", "closed"})
        => /\ last.result = EmptyMap
           /\ last.raised = "none"
           /\ ~last.remoteCalled

C10_Witness ==
    /\ last.op = "get_active_modules"
    /\ last.pre = "closed"
    /\ connection # None
    /\ last.result = EmptyMap

\* C11: the engine's execute of a do_execute() call begins only after that
\* call's update_module_namespace() has completed, the engine step is the
\* only way on from there, and a reconciliation pass starts only when no
\* pass and no execution is in progress.
C11_SyncBeforeExecute ==
    [][ /\ (pc' = "exec_super" /\ pc # "exec_super")
            => /\ pc = "ready"
               /\ last'.op = "do_execute"
               /\ last'.raised = "none"
               /\ _namespace_qudi_modules' = DOMAIN last'.result
        /\ (pc = "exec_super" /\ pc' # "exec_super")
            => (pc' = "ready" /\ last'.op = "super_do_execute")
        /\ last'.op = "super_do_execute" => pc = "exec_super"
        /\ last'.op \in {"__init__", "do_execute"} => pc \in {"init_sync", "ready"}
      ]_vars

C11_Witness ==
    /\ pc = "exec_super"
    /\ last.op = "do_execute"
    /\ last.qo = "ok"
    /\ last.raised = "none"
    /\ last.T = {"a"}
    /\ DOMAIN last.result = {"a", "c"}
    /\ DOMAIN user_ns = {"a", "c"}

ShutdownPositions == {ShutdownSuper(restart) : restart \in BOOLEAN}

\* C12: do_shutdown(restart) calls the client's disconnect() before the
\* engine's shutdown handling, for either restart flag and whatever the
\* connection state; when the engine's shutdown handling starts the client
\* holds no connection.  (The engine's shutdown handling is reached only by
\* the disconnect() step of do_shutdown, which raises nothing and leaves the
\* reference None; only the environment may act in between.)
C12_DisconnectBeforeShutdown ==
    /\ [](pc \in ShutdownPositions
            => /\ connection = None
               /\ last.op \in {"do_shutdown", "link_lost", "receiver_ends"})
    /\ [][ /\ (pc' \in ShutdownPositions /\ pc \notin ShutdownPositions)
               => /\ pc = "ready"
                  /\ last'.op = "do_shutdown"
                  /\ last'.raised = "none"
                  /\ connection' = None
           /\ last'.op = "super_do_shutdown"
               => (pc \in ShutdownPositions /\ connection = None)
           /\ (last'.op = "do_shutdown" /\ pc = "ready")
               => pc' \in ShutdownPositions
         ]_vars

C12_Witness ==
    /\ pc = ShutdownSuper(TRUE)
    /\ last.op = "do_shutdown"
    /\ last.pre = "open"
    /\ last.how = "raise"
    /\ connection = None

\* C13: when a pass against S2 follows a pass against S1, whatever user code
\* did to the namespace in between, every name of keys(S2) is bound after
\* the second pass and every name of keys(S1) \ keys(S2) is absent.
C13_SequentialSnapshots ==
    [][ (CompletedPassStep /\ pc = "ready")
          => LET S1 == snapshot
                 S2 == last'.result
             IN  /\ \A n \in DOMAIN S2 : n \in DOMAIN user_ns'
                 /\ \A n \in DOMAIN S1 \ DOMAIN S2 : n \notin DOMAIN user_ns'
      ]_vars

C13_Witness ==
    /\ pc = "exec_super"
    /\ PassCompleted
    /\ ~last.same
    /\ last.T = {"a", "c"}
    /\ DOMAIN last.result = {"c", "d"}
    /\ DOMAIN user_ns = {"b", "c", "d"}
    /\ user_ns["b"] = 2

\* C14: session initialization performs connect(), then starts from an
\* empty tracked set and runs exactly one reconciliation pass before any
\* do_execute(); when connect() fails the failure leaves session
\* construction and no pass and no execution ever happens in that session.
C14_Lifecycle ==
    /\ [](  /\ pc = "init_sync"
                => /\ connection # None
                   /\ last.op \in {"connect", "link_lost", "receiver_ends"}
            /\ (last.op = "connect" /\ last.raised # "none")
                => /\ pc = "failed"
                   /\ connection = None
                   /\ user_ns = EmptyMap
                   /\ _namespace_qudi_modules = {} )
    /\ [][  /\ last'.op = "connect" => (pc = "new" /\ pc' \in {"init_sync", "failed"})
            /\ pc' = "new" => pc = "new"
            /\ pc' = "init_sync" => pc \in {"new", "init_sync"}
            /\ last'.op = "__init__"
                => (pc = "init_sync" /\ last'.T = {} /\ pc' \in {"ready", "failed"})
            /\ (pc' = "ready" /\ pc \in {"new", "init_sync"})
                => /\ last'.op = "__init__"
                   /\ last'.raised = "none"
                   /\ _namespace_qudi_modules' = DOMAIN last'.result
            /\ last'.op \in {"do_execute", "super_do_execute"} => pc \in {"ready", "exec_super"}
            /\ pc = "failed" => UNCHANGED <<pc, user_ns, _namespace_qudi_modules, snapshot>>
         ]_vars

C14_Witness ==
    /\ pc = "ready"
    /\ last.op = "__init__"
    /\ last.raised = "none"
    /\ connection # None
    /\ DOMAIN last.result = {"a", "b"}
    /\ _namespace_qudi_modules = {"a", "b"}

\* C15: when the remote query of get_active_modules() fails with anything
\* other than a connection error or end-of-stream, the failure leaves
\* get_active_modules() uncaught and the client keeps its connection: the
\* reference is not cleared and close is not called by the client.  The
\* call changes nothing itself; the only change during it is the receiver
\* thread's close of a connection whose link is lost while the call is in
\* flight.
C15_OtherFailurePropagates ==
    /\ [](  (last.op = "get_active_modules" /\ last.qo = "other")
            => /\ last.raised = "other"
               /\ last.how = "not_called"
               /\ connection # None
               /\ last.lost = "none" => conns[connection] = "open" )
    /\ [][  (last'.op = "get_active_modules" /\ last'.qo = "other")
            => /\ connection' = connection
               /\ last'.lost = "none" => UNCHANGED clientVars
               /\ last'.lost # "none"
                   => /\ conns' = [conns EXCEPT ![connection] = "closed"]
                      /\ receivers' \subseteq receivers ]_vars

C15_Witness ==
    /\ last.op = "get_active_modules"
    /\ last.qo = "other"
    /\ last.lost = "none"
    /\ last.raised = "other"
    /\ connection # None
    /\ conns[connection] = "open"
    /\ _background_server = connection

\* The session's client has released its connection: connect() ran and the
\* reference is None again.
Released == connection = None /\ pc \notin {"new", "failed"}

\* C16 as stated: once the client's connection has been released, nothing
\* re-establishes it, every later snapshot is empty and the tracked set is
\* empty for the rest of the session.
C16_ReleasedMeansTrackedEmpty ==
    [][ Released
          => /\ connection' = None
             /\ last'.op = "do_execute" => last'.result = EmptyMap
             /\ _namespace_qudi_modules' = {}
      ]_vars

\* C16 amended: once the client's connection has been released (a
\* connection loss detected in a query, or do_shutdown), nothing in the
\* session opens a connection again: the reference stays None, every later
\* pass gets an empty snapshot without a remote call and leaves the tracked
\* set empty, and an empty tracked set stays empty; after do_shutdown the
\* tracked set keeps its names until such a pass runs.
C16_NoReconnect ==
    [][ Released
          => /\ connection' = None
             /\ conns' = conns
             /\ last'.op = "do_execute"
                 => /\ last'.raised = "none"
                    /\ ~last'.remoteCalled
                    /\ last'.result = EmptyMap
                    /\ _namespace_qudi_modules' = {}
             /\ _namespace_qudi_modules = {} => _namespace_qudi_modules' = {}
      ]_vars

C16_Witness ==
    /\ pc = "exec_super"
    /\ last.op = "do_execute"
    /\ last.pre = "none"
    /\ last.T = {}
    /\ last.result = EmptyMap
    /\ connection = None
    /\ conns[1] = "closed"
    /\ _namespace_qudi_modules = {}
    /\ DOMAIN user_ns = {"c"}

\* C17: after any sequence of connect(), get_active_modules() and
\* disconnect() on one client, at most one receiver is started and not
\* stopped, and a running receiver is the one the service references.
C17_AtMostOneReceiver ==
    /\ Cardinality(receivers) <= 1
    /\ receivers \subseteq {_background_server}

\* C18: on_disconnect() never raises and always leaves the service with no
\* reference to a receiver, whether the receiver is running, stopping it
\* raises, it was already stopped, or no receiver was ever started.
C18_OnDisconnectTotal ==
    last.op = "on_disconnect"
        => /\ last.raised = "none"
           /\ _background_server = None

C18_Witness ==
    /\ last.op = "on_disconnect"
    /\ last.pre = "none"
    /\ last.how = "AttributeError"
    /\ \A i \in ConnIds : conns[i] = "unopened"
    /\ receivers = {}
    /\ _background_server = None

\* C19: when get_active_modules() raises during update_module_namespace()
\* the pass changes neither the namespace nor the tracked set, so the next
\* completed pass still removes the names that were tracked before the
\* failure and are not in its snapshot.
C19_FailedPassChangesNothing ==
    [][ /\ ( /\ pc \in {"init_sync", "ready"}
             /\ last'.op \in {"__init__", "do_execute"}
             /\ last'.raised # "none" )
            => /\ UNCHANGED <<user_ns, _namespace_qudi_modules, snapshot>>
               /\ last'.T = _namespace_qudi_modules
        /\ ( /\ pc = "ready"
             /\ last.op = "do_execute"
             /\ last.raised # "none"
             /\ CompletedPassStep )
            => /\ last'.T = last.T
               /\ \A n \in last.T \ DOMAIN last'.result : n \notin DOMAIN user_ns'
      ]_vars

C19_Witness ==
    /\ pc = "ready"
    /\ last.op = "do_execute"
    /\ last.raised = "other"
    /\ last.T = {"a", "b"}
    /\ _namespace_qudi_modules = {"a", "b"}
    /\ DOMAIN user_ns = {"a", "b", "c"}

\* C20: get_active_modules() on a client whose connection is already marked
\* closed changes no client state: the reference stays set and close is not
\* called; a closed connection leaves the reference only through
\* disconnect() or a new connect().
C20_ClosedReferenceKept ==
    [][ /\ (last'.op = "get_active_modules" /\ last'.pre = "closed")
            => /\ UNCHANGED clientVars
               /\ connection' # None
               /\ conns'[connection'] = "closed"
               /\ last'.how = "not_called"
        /\ (connection # None /\ conns[connection] = "closed" /\ connection' # connection)
            => \/ last'.op = "disconnect" /\ connection' = None
               \/ last'.op = "connect" /\ connection' # None
      ]_vars

C20_Witness ==
    /\ last.op = "get_active_modules"
    /\ last.pre = "closed"
    /\ last.result = EmptyMap
    /\ connection = 2
    /\ conns[2] = "closed"
    /\ conns[1] = "open"

====
